---- MODULE Spec2Model ----
(***************************************************************************)
(* A model of yaffs_unpack.py: the byte-order / geometry detection, the    *)
(* header decoding, the parent-id walk and the materialisation loop of     *)
(* YAFFS_unpacker.unpack.                                                  *)
(*                                                                         *)
(* The input stream is described by its byte order, its length, the offset *)
(* of the first byte at or after the header length that is not 0xFF, and   *)
(* its first header page; the pages read later are drawn when the code     *)
(* reads them.  A header page is the tuple of the raw bytes of the fields  *)
(* get_ObjHdr reads; 32-bit fields are four bytes in stream order.         *)
(* Text (a decoded name) is the sequence of its byte codes.                *)
(***************************************************************************)
EXTENDS Integers, Sequences, FiniteSets, TLC

\* ------------------------------------------------------------------ bounds
\* The longest stream, in page+spare units of the detected geometry.
MaxUnits == 4
\* How far past the registry's size the model follows a parent-id walk.
WalkSlack == 1
\* The unpack calls made in one process under SpecReuse.
MaxCalls == 2

\* ------------------------------------------------------- program constants
YAFFS_OBJECT_TYPE_UNKNOWN == 0
YAFFS_OBJECT_TYPE_FILE == 1
YAFFS_OBJECT_TYPE_SYMLINK == 2
YAFFS_OBJECT_TYPE_DIRECTORY == 3
YAFFS_OBJECT_TYPE_HARDLINK == 4
YAFFS_OBJECT_TYPE_SPECIAL == 5
\* cstruct.LITTLE_ENDIAN and cstruct.BIG_ENDIAN
LITTLE_ENDIAN == "<"
BIG_ENDIAN == ">"
\* yaffs_obj_hdr.size: the packed length of the header structure
HdrSize == 512
\* yaffs_magic_header.size: u32 + u32 + u16
MagicSize == 10
\* itertools.count(256+1)
FirstObjId == 257
V1PageSize == 512
SpareDivisor == 32
NoPageSize == -1
\* A mutant of allowed_page_size: the candidates probed in ascending order.
allowed_page_size_ascending == <<512, 2048, 4096, 8192, 16384>>
allowed_page_size == <<16384, 8192, 4096, 2048, 512>>

\* ----------------------------------------------------------------- helpers
Min(a, b) == IF a < b THEN a ELSE b
Reverse(s) == [i \in 1..Len(s) |-> s[Len(s) + 1 - i]]
Front(s) == SubSeq(s, 1, Len(s) - 1)
SeqRange(s) == {s[i] : i \in 1..Len(s)}

\* ------------------------------------------------------------ 32-bit fields
\* The four bytes of v in stream order (struct.pack of "<I" or ">I").
Bytes4(v, order) ==
    LET le == <<v % 256, (v \div 256) % 256, (v \div 65536) % 256, (v \div 16777216) % 256>>
    IN  IF order = LITTLE_ENDIAN THEN le ELSE Reverse(le)
FF4 == <<255, 255, 255, 255>>
\* struct.unpack of a u32: the value as its four base-256 digits, most
\* significant first (a u32 can exceed the checker's integers).
U32(b, order) == IF order = BIG_ENDIAN THEN b ELSE Reverse(b)
Small(v) == <<0, 0, 0, v>>
Shifted24(v) == <<v, 0, 0, 0>>
\* The integer a digit tuple stands for, for values below 2^31.
IntOf(d) == ((d[1] * 256 + d[2]) * 256 + d[3]) * 256 + d[4]

\* ------------------------------------------------------- text fields
\* A fixed-width text field is modelled by its leading bytes: a field never
\* written (all 0xFF), or a text, its NUL and the 0xFF left after it.
FFField == <<255, 255, 255>>
Field(text) == text \o <<0>> \o [i \in 1..(2 - Len(text)) |-> 255]
AllFF(bytes) == \A i \in 1..Len(bytes) : bytes[i] = 255
FirstNul(bytes) ==
    IF \E i \in 1..Len(bytes) : bytes[i] = 0
    THEN CHOOSE i \in 1..Len(bytes) : bytes[i] = 0 /\ \A j \in 1..(i - 1) : bytes[j] # 0
    ELSE Len(bytes) + 1
\* data.split(b'\x00')[0]
BeforeNul(bytes) == SubSeq(bytes, 1, FirstNul(bytes) - 1)
\* .decode('utf8') of single-byte characters: a byte of 128 or more on its
\* own is no UTF-8 text (UnicodeDecodeError, a ValueError).
Utf8Ok(bytes) == \A i \in 1..Len(bytes) : bytes[i] < 128
c_null_term_str_to_str(bytes) == IF AllFF(bytes) THEN <<>> ELSE BeforeNul(bytes)
c_null_term_str_raises(bytes) == ~AllFF(bytes) /\ ~Utf8Ok(BeforeNul(bytes))

\* ------------------------------------------------------------ header pages
\* The bytes of one header page that get_ObjHdr reads, as written in a
\* stream of byte order `order`.
Page(order, type, parent, name, low, high, alias) ==
    [type |-> Bytes4(type, order), parent |-> Bytes4(parent, order), name |-> name,
     file_size_low |-> Bytes4(low, order), file_size_high |-> high, alias |-> alias]
\* An erased page: every byte 0xFF.
FillPage ==
    [type |-> FF4, parent |-> FF4, name |-> FFField,
     file_size_low |-> FF4, file_size_high |-> FF4, alias |-> FFField]

ValidTypes == YAFFS_OBJECT_TYPE_UNKNOWN..YAFFS_OBJECT_TYPE_SPECIAL
\* The enum conversion of the type field: cstruct raises ValueError for an
\* integer that is no member of yaffs_obj_type.
TypeIsMember(digits) == \E v \in ValidTypes : digits = Small(v)
Shl32(h) == h * 65536 * 65536

\* ObjHdr as get_ObjHdr fills it (mode, uid, gid and the times are carried
\* through and decide nothing here).
ObjHdr(type, parent, name, file_size, alias) ==
    [type |-> type, parent_obj_id |-> parent, name |-> name,
     file_size |-> file_size, alias |-> alias]

\* yaffs_obj_hdr.get_ObjHdr on the first `got` bytes of a page, under the
\* parser's byte order: the exception it raises ("" for none) and the record
\* it returns.  The structure is unpacked field by field, the type first.
get_ObjHdr_raises(page, order, got) ==
    IF got < 4 THEN "struct.error"
    ELSE IF ~TypeIsMember(U32(page.type, order)) THEN "ValueError"
    ELSE IF got < HdrSize THEN "struct.error"
    ELSE IF c_null_term_str_raises(page.name) THEN "ValueError"
    ELSE IF c_null_term_str_raises(page.alias) THEN "ValueError"
    ELSE ""
get_ObjHdr(page, order) ==
    LET type == U32(page.type, order)[4]
        low == IntOf(U32(page.file_size_low, order))
        high == U32(page.file_size_high, order)
    IN  ObjHdr(type,
               IntOf(U32(page.parent, order)),
               c_null_term_str_to_str(page.name),
               IF type = YAFFS_OBJECT_TYPE_FILE
               THEN IF high # FF4 THEN low + Shl32(IntOf(high)) ELSE low
               ELSE -1,
               c_null_term_str_to_str(page.alias))

\* detect_endianness on the magic header's type as the parser decoded it.
detect_endianness(type) ==
    IF \E v \in 1..5 : type = Small(v) THEN LITTLE_ENDIAN
    ELSE IF \E v \in {1, 2, 3, 4, 4, 5} : type = Shifted24(v) THEN BIG_ENDIAN
    ELSE "CorruptedType"

\* ---------------------------------------------------------------- the stream
\* fin.read(n) at cursor p of a stream of length len: the bytes it returns.
ReadLen(p, n, len) == IF p >= len THEN 0 ELSE Min(n, len - p)

\* _test_page_size: data = the first page_size bytes (fewer in a shorter
\* stream); no byte of data[yaffs_obj_hdr.size:] differs from 0xFF.
\* image.fill_end is the offset of the first byte at or after HdrSize that is
\* not 0xFF (the stream's length when there is none).
test_page_size(image, size) ==
    LET n == ReadLen(0, size, image.len)
    IN  ~(HdrSize <= image.fill_end /\ image.fill_end < n)

\* The loop of _detect_param over allowed_page_size from position i on.
RECURSIVE FirstAllowed(_, _)
FirstAllowed(image, i) ==
    IF i > Len(allowed_page_size) THEN NoPageSize
    ELSE IF test_page_size(image, allowed_page_size[i]) THEN allowed_page_size[i]
    ELSE FirstAllowed(image, i + 1)

\* ---------------------------------------------------- the output directory
\* The tree under outdir: path (the names below outdir) -> entry.
DirEntry == [kind |-> "dir", size |-> 0, target |-> <<>>]
FileEntry(n) == [kind |-> "file", size |-> n, target |-> <<>>]
LinkEntry(t) == [kind |-> "symlink", size |-> 0, target |-> t]
EmptyOutdir == [p \in {<<>>} |-> DirEntry]
Put(f, k, v) == [x \in DOMAIN f \cup {k} |-> IF x = k THEN v ELSE f[x]]
Ok(path) == [err |-> "", path |-> path]
Err(e) == [err |-> e, path |-> <<>>]

\* Path(os.sep.join([outdir] + names)): empty components vanish.
NormPath(names) == SelectSeq(names, LAMBDA n : n # <<>>)

\* The directory a path names, symbolic links followed (the kernel's walk).
RECURSIVE RealDir(_, _)
RealDir(tree, path) ==
    IF path = <<>> THEN Ok(<<>>)
    ELSE LET up == RealDir(tree, Front(path))
             q == up.path \o <<path[Len(path)]>>
         IN  IF up.err # "" THEN up
             ELSE IF q \notin DOMAIN tree THEN Err("FileNotFoundError")
             ELSE IF tree[q].kind = "dir" THEN Ok(q)
             ELSE IF tree[q].kind = "file" THEN Err("NotADirectoryError")
             ELSE RealDir(tree, up.path \o <<tree[q].target>>)
\* Where the entry named by a path below outdir lives.
EntryPath(tree, path) ==
    LET up == RealDir(tree, Front(path))
    IN  IF up.err # "" THEN up ELSE Ok(up.path \o <<path[Len(path)]>>)

\* os.mkdir(path): the exception raised ("" for none) and the tree left.
os_mkdir(tree, path) ==
    IF path = <<>> THEN [err |-> "FileExistsError", tree |-> tree]
    ELSE LET q == EntryPath(tree, path)
         IN  IF q.err # "" THEN [err |-> q.err, tree |-> tree]
             ELSE IF q.path \in DOMAIN tree THEN [err |-> "FileExistsError", tree |-> tree]
             ELSE [err |-> "", tree |-> Put(tree, q.path, DirEntry)]

\* os.symlink(alias, path)
os_symlink(tree, alias, path) ==
    IF alias = <<>> THEN [err |-> "FileNotFoundError", tree |-> tree]
    ELSE IF path = <<>> THEN [err |-> "FileExistsError", tree |-> tree]
    ELSE LET q == EntryPath(tree, path)
         IN  IF q.err # "" THEN [err |-> q.err, tree |-> tree]
             ELSE IF q.path \in DOMAIN tree THEN [err |-> "FileExistsError", tree |-> tree]
             ELSE [err |-> "", tree |-> Put(tree, q.path, LinkEntry(alias))]

\* Path(path).open('wb'): the exception raised, or the file it opens (created
\* or truncated; a symbolic link at the path is followed).
RECURSIVE OpenTarget(_, _)
OpenTarget(tree, path) ==
    IF path = <<>> THEN Err("IsADirectoryError")
    ELSE LET q == EntryPath(tree, path)
         IN  IF q.err # "" THEN q
             ELSE IF q.path \notin DOMAIN tree THEN q
             ELSE IF tree[q.path].kind = "dir" THEN Err("IsADirectoryError")
             ELSE IF tree[q.path].kind = "file" THEN q
             ELSE OpenTarget(tree, Front(q.path) \o <<tree[q.path].target>>)

\* ------------------------------------------------------ file content pages
\* A mutant of SkipSpare: the spare after a content page is not skipped.
SkipSpareMissing(p, spare) == p
\* fin.seek(spare_size, io.SEEK_CUR) after a content page.
SkipSpare(p, spare) == p + spare
\* The bytes of the last page that are written: page_data[:file_size % page_size].
LastPageBytes(got, file_size, size) == Min(got, file_size % size)
NumPages(file_size, size) == (file_size + size - 1) \div size

\* The loop over range(num_pages) from page i on: the cursor and the bytes
\* written when it ends.
RECURSIVE WritePages(_, _, _, _, _, _, _, _)
WritePages(i, num_pages, p, written, file_size, size, spare, len) ==
    IF i >= num_pages THEN [pos |-> p, written |-> written]
    ELSE LET got == ReadLen(p, size, len)
             out == IF i < num_pages - 1 THEN got ELSE LastPageBytes(got, file_size, size)
         IN  WritePages(i + 1, num_pages, SkipSpare(p + got, spare), written + out,
                        file_size, size, spare, len)

\* ------------------------------------------------------------------- inputs
Unit(size) == size + size \div SpareDivisor
NameD == <<100>>
NameF == <<102>>
TargetX == <<120>>
Orders == {LITTLE_ENDIAN, BIG_ENDIAN}

\* Stream lengths: whole page+spare units of a page size, or the last unit
\* cut inside its spare or inside its page.
Cut(p, c) == IF c = 0 THEN 0 ELSE IF c = 1 THEN p \div 64 ELSE p \div SpareDivisor + 100
StreamLens ==
    {n * Unit(p) - Cut(p, c) : p \in {512, 2048}, n \in 1..MaxUnits, c \in 0..2}
    \cup {Unit(p) : p \in SeqRange(allowed_page_size)}
FillEnds(len) ==
    {e \in {HdrSize, len} \cup SeqRange(allowed_page_size) : HdrSize <= e /\ e <= len}

\* First pages: the version-1 placeholder (name and alias never written), a
\* version-2 directory and file, and pages whose type is no object type.
FirstPages(o) ==
    {Page(o, YAFFS_OBJECT_TYPE_DIRECTORY, 1, FFField, 0, FF4, FFField),
     Page(o, YAFFS_OBJECT_TYPE_DIRECTORY, 1, Field(NameD), 0, FF4, FFField),
     Page(o, YAFFS_OBJECT_TYPE_FILE, 1, Field(NameF), 612, FF4, FFField),
     Page(o, YAFFS_OBJECT_TYPE_UNKNOWN, 1, Field(NameD), 0, FF4, FFField),
     Page(o, 7, 1, Field(NameD), 0, FF4, FFField)}

Images ==
    UNION {UNION {{[order |-> o, len |-> len, fill_end |-> e, hdr0 |-> h] :
                      e \in FillEnds(len), h \in FirstPages(o)} :
                  len \in StreamLens} :
           o \in Orders}

\* Header pages a stream of byte order o and page size `size` may hold.
Pages(o, size) ==
    {Page(o, YAFFS_OBJECT_TYPE_DIRECTORY, parent, Field(NameD), 0, FF4, FFField) :
        parent \in {1, FirstObjId, FirstObjId + 1}}
    \cup {Page(o, YAFFS_OBJECT_TYPE_DIRECTORY, 1, FFField, 0, FF4, FFField)}
    \cup UNION {{Page(o, YAFFS_OBJECT_TYPE_FILE, parent, Field(NameF), 0, Bytes4(0, o), FFField),
                 Page(o, YAFFS_OBJECT_TYPE_FILE, parent, Field(NameF), 100, FF4, FFField),
                 Page(o, YAFFS_OBJECT_TYPE_FILE, parent, Field(NameF), size, Bytes4(0, o), FFField),
                 Page(o, YAFFS_OBJECT_TYPE_FILE, parent, Field(NameF), size + 100, FF4, FFField)} :
                parent \in {1, FirstObjId}}
    \cup {Page(o, YAFFS_OBJECT_TYPE_SYMLINK, 1, Field(NameF), 0, FF4, alias) :
          alias \in {Field(TargetX), FFField}}
    \cup {Page(o, type, parent, Field(NameD), 0, FF4, FFField) :
          type \in {YAFFS_OBJECT_TYPE_UNKNOWN, YAFFS_OBJECT_TYPE_HARDLINK,
                    YAFFS_OBJECT_TYPE_SPECIAL, 7},
          parent \in {1, FirstObjId}}
    \cup {Page(o, YAFFS_OBJECT_TYPE_DIRECTORY, 1, <<255, 0, 255>>, 0, FF4, FFField)}

\* -------------------------------------------------------------------- state
VARIABLES
    parser_order,   \* __byte_order__ of the module's yaffs_obj_hdr / yaffs_magic_header
    objdict,        \* self.objdict
    yaffs_version,  \* self.yaffs_version
    endianness,     \* self.endianness
    page_size,      \* self.page_size
    spare_size,     \* self.spare_size
    img,            \* the stream behind fin
    pos,            \* fin's cursor
    data,           \* unpack's data: the length and the header bytes of the last page read
    pc,             \* where unpack is: idle, scan, walk, done (returned), raised
    exc,            \* the exception unpack raised
    exc_arg,        \* its argument
    obj_id,         \* unpack's obj_id
    walk_id,        \* _unwind_parent_name's obj_id
    obj_path,       \* the names _unwind_parent_name has yielded
    tree,           \* the directory tree under outdir
    pages,          \* pages read by the loop of unpack (headers and content)
    calls           \* calls of unpack made in this process

vars == <<parser_order, objdict, yaffs_version, endianness, page_size, spare_size,
          img, pos, data, pc, exc, exc_arg, obj_id, walk_id, obj_path, tree, pages, calls>>
self_vars == <<objdict, yaffs_version, endianness, page_size, spare_size>>
walk_vars == <<walk_id, obj_path>>

NoImage == [order |-> LITTLE_ENDIAN, len |-> 0, fill_end |-> 0, hdr0 |-> FillPage]
NoData == [len |-> 0, page |-> FillPage]

\* A process that has imported the module and made one YAFFS_unpacker().
Init ==
    /\ parser_order = LITTLE_ENDIAN
    /\ objdict = <<>>
    /\ yaffs_version = 1
    /\ endianness = LITTLE_ENDIAN
    /\ page_size = V1PageSize
    /\ spare_size = V1PageSize \div SpareDivisor
    /\ img = NoImage
    /\ pos = 0
    /\ data = NoData
    /\ pc = "idle"
    /\ exc = ""
    /\ exc_arg = -1
    /\ obj_id = 0
    /\ walk_id = 0
    /\ obj_path = <<>>
    /\ tree = EmptyOutdir
    /\ pages = 0
    /\ calls = 0

\* ------------------------------------------------------------ _detect_param
\* What _detect_param leaves: the exception it raises ("" for none), the
\* byte order set on the instance and on the module's parsers, and the
\* geometry.
Detected(e, order, version, size, spare) ==
    [exc |-> e, order |-> order, version |-> version, page_size |-> size, spare_size |-> spare]
detect_param(image) ==
    LET kept == Detected("", endianness, yaffs_version, page_size, spare_size)
        order == detect_endianness(U32(image.hdr0.type, parser_order))
        found == FirstAllowed(image, 1)
    IN  IF image.len < MagicSize THEN [kept EXCEPT !.exc = "struct.error"]
        ELSE IF order = "CorruptedType" THEN [kept EXCEPT !.exc = "CorruptedType"]
        ELSE IF get_ObjHdr_raises(image.hdr0, order, ReadLen(0, HdrSize, image.len)) # ""
             THEN [kept EXCEPT !.order = order,
                               !.exc = get_ObjHdr_raises(image.hdr0, order,
                                                         ReadLen(0, HdrSize, image.len))]
        ELSE IF get_ObjHdr(image.hdr0, order).name = <<>>
                /\ get_ObjHdr(image.hdr0, order).alias = <<>>
             THEN Detected("", order, 1, V1PageSize, V1PageSize \div SpareDivisor)
        ELSE IF found = NoPageSize
             THEN Detected("WrongPageSize", order, 2, NoPageSize, spare_size)
        ELSE Detected("", order, 2, found, found \div SpareDivisor)

\* unpack up to its loop: _detect_param, then the seek to the first header.
\* A call of unpack on this instance with a new stream and an empty outdir.
Unpack(image, max_calls) ==
    /\ pc \in {"idle", "done", "raised"}
    /\ calls < max_calls
    /\ LET d == detect_param(image)
       IN  /\ d.exc = "" => image.len <= MaxUnits * (d.page_size + d.spare_size)
           /\ endianness' = d.order
           /\ parser_order' = IF d.exc \in {"CorruptedType"} \/ image.len < MagicSize
                              THEN parser_order ELSE d.order
           /\ yaffs_version' = d.version
           /\ page_size' = d.page_size
           /\ spare_size' = d.spare_size
           /\ exc' = d.exc
           /\ pc' = IF d.exc = "" THEN "scan" ELSE "raised"
           /\ pos' = IF d.exc = "" /\ d.version = 1 THEN d.page_size + d.spare_size ELSE 0
    /\ img' = image
    /\ calls' = calls + 1
    /\ obj_id' = FirstObjId
    /\ exc_arg' = -1
    /\ data' = NoData
    /\ tree' = EmptyOutdir
    /\ pages' = 0
    /\ UNCHANGED <<objdict, walk_vars>>

\* ------------------------------------------------------- the loop of unpack
\* The header bytes a read of a page at cursor p can return: the first page
\* again at offset 0, erased bytes before fill_end, any page after it.
PagesAt(p) ==
    IF ReadLen(p, page_size, img.len) < HdrSize THEN {FillPage}
    ELSE IF p = 0 THEN {img.hdr0}
    ELSE IF p < img.fill_end THEN {FillPage}
    ELSE Pages(img.order, page_size)

\* fin.read(self.spare_size) after a header page.
ReadSpare(p, spare, len) == p + ReadLen(p, spare, len)
\* A mutant of NextObjId: the counter does not advance.
NextObjIdStuck(id) == id
\* itertools.count: the id of the next iteration.
NextObjId(id) == id + 1
\* What the try block raises for the page read: get_ObjHdr is given
\* data[:yoh.size].
HeaderRaises(got, page) == get_ObjHdr_raises(page, parser_order, Min(got, HdrSize))
\* A mutant of Caught: only struct.error ends the scan.
CaughtStructErrorOnly(e) == e = "struct.error"
\* except (struct.error, ValueError): break
Caught(e) == e \in {"struct.error", "ValueError"}

\* One iteration up to the registration: read a page, decode it, skip the
\* spare, register the record and start the parent-id walk.
ReadHeader(page) ==
    /\ pc = "scan"
    /\ page \in PagesAt(pos)
    /\ LET got == ReadLen(pos, page_size, img.len)
           e == HeaderRaises(got, page)
       IN  /\ data' = [len |-> got, page |-> page]
           /\ IF e # ""
              THEN /\ pc' = IF Caught(e) THEN "done" ELSE "raised"
                   /\ exc' = IF Caught(e) THEN "" ELSE e
                   /\ pos' = pos + got
                   /\ UNCHANGED <<objdict, walk_vars, pages>>
              ELSE /\ pos' = ReadSpare(pos + got, spare_size, img.len)
                   /\ objdict' = Put(objdict, obj_id, get_ObjHdr(page, parser_order))
                   /\ pc' = "walk"
                   /\ walk_id' = obj_id
                   /\ obj_path' = <<>>
                   /\ pages' = pages + 1
                   /\ exc' = exc
    /\ UNCHANGED <<parser_order, yaffs_version, endianness, page_size, spare_size,
                   img, exc_arg, obj_id, tree, calls>>

\* One turn of the while loop of _unwind_parent_name.
WalkStep ==
    /\ pc = "walk"
    /\ walk_id \in DOMAIN objdict
    /\ Len(obj_path) < Cardinality(DOMAIN objdict) + WalkSlack
    /\ obj_path' = Append(obj_path, objdict[walk_id].name)
    /\ walk_id' = objdict[walk_id].parent_obj_id
    /\ UNCHANGED <<parser_order, self_vars, img, pos, data, pc, exc, exc_arg, obj_id,
                   tree, pages, calls>>

\* The rest of the iteration for the record just registered, at the path
\* the walk gave: the exception raised, the tree and the cursor left, and
\* the content pages read.
Outcome(e, t, p, n) == [err |-> e, tree |-> t, pos |-> p, pages |-> n]
MaterializeDir(path) ==
    LET r == os_mkdir(tree, path) IN Outcome(r.err, r.tree, pos, 0)
MaterializeFile(oh, path) ==
    LET num_pages == NumPages(oh.file_size, page_size)
        fout == OpenTarget(tree, path)
        w == WritePages(0, num_pages, pos, 0, oh.file_size, page_size, spare_size, img.len)
    IN  IF fout.err # "" THEN Outcome(fout.err, tree, pos, 0)
        ELSE Outcome("", Put(tree, fout.path, FileEntry(w.written)), w.pos, num_pages)
MaterializeSymlink(oh, path) ==
    LET r == os_symlink(tree, oh.alias, path) IN Outcome(r.err, r.tree, pos, 0)
MaterializeObject(oh, path) ==
    IF oh.type = YAFFS_OBJECT_TYPE_DIRECTORY THEN MaterializeDir(path)
    ELSE IF oh.type = YAFFS_OBJECT_TYPE_FILE THEN MaterializeFile(oh, path)
    ELSE IF oh.type = YAFFS_OBJECT_TYPE_SYMLINK THEN MaterializeSymlink(oh, path)
    ELSE Outcome("WrongYaffsObjType", tree, pos, 0)

\* obj_path once the walk has ended: the names reversed, below outdir.
ObjPath == NormPath(Reverse(obj_path))

\* The walk has ended: build the path, create the entry (os.utime then sets
\* its times) and go on to the next id, or raise.
Materialize ==
    /\ pc = "walk"
    /\ walk_id \notin DOMAIN objdict
    /\ LET r == MaterializeObject(objdict[obj_id], ObjPath)
       IN  /\ tree' = r.tree
           /\ pos' = r.pos
           /\ pages' = pages + r.pages
           /\ exc' = r.err
           /\ exc_arg' = IF r.err = "WrongYaffsObjType" THEN objdict[obj_id].type ELSE exc_arg
           /\ pc' = IF r.err = "" THEN "scan" ELSE "raised"
           /\ obj_id' = IF r.err = "" THEN NextObjId(obj_id) ELSE obj_id
    /\ UNCHANGED <<parser_order, self_vars, img, data, walk_vars, calls>>

\* unpacker = YAFFS_unpacker(): a new instance in the same process.
NewUnpacker ==
    /\ pc \in {"done", "raised"}
    /\ pc' = "idle"
    /\ objdict' = <<>>
    /\ yaffs_version' = 1
    /\ endianness' = LITTLE_ENDIAN
    /\ page_size' = V1PageSize
    /\ spare_size' = V1PageSize \div SpareDivisor
    /\ UNCHANGED <<parser_order, img, pos, data, exc, exc_arg, obj_id, walk_vars,
                   tree, pages, calls>>

\* ----------------------------------------------------------- specifications
\* One run of the program: main makes one unpacker and calls unpack once.
Next ==
    \/ pc = "idle" /\ \E image \in Images : Unpack(image, 1)
    \/ pc = "scan" /\ \E page \in PagesAt(pos) : ReadHeader(page)
    \/ WalkStep
    \/ Materialize

Spec == Init /\ [][Next]_vars

\* One process that makes several unpackers and calls unpack several times,
\* on short streams.
ReuseImages == {i \in Images : i.len <= 2 * Unit(V1PageSize) /\ i.fill_end = HdrSize}
NextReuse ==
    \/ pc # "scan" /\ pc # "walk" /\ \E image \in ReuseImages : Unpack(image, MaxCalls)
    \/ pc = "scan" /\ \E page \in PagesAt(pos) : ReadHeader(page)
    \/ WalkStep
    \/ Materialize
    \/ NewUnpacker

SpecReuse == Init /\ [][NextReuse]_vars

\* ------------------------------------------------------------------- claims
Ceil(a, b) == (a + b - 1) \div b
UnitSize == page_size + spare_size
\* Materialize's step for a record of the given type that did not raise.
Materialized(type) ==
    /\ pc = "walk" /\ pc' = "scan"
    /\ objdict[obj_id].type = type
\* The content pages of the File record just registered lie within the stream.
ContentPresent ==
    LET n == Ceil(objdict[obj_id].file_size, page_size)
    IN  n = 0 \/ pos + n * page_size + (n - 1) * spare_size <= img.len

\* C1: a File record whose content pages are all in the stream leaves an
\* output file of exactly file_size bytes.
C1_FileSizeExact ==
    [][(Materialized(YAFFS_OBJECT_TYPE_FILE) /\ ContentPresent)
         => tree'[OpenTarget(tree, ObjPath).path].size = objdict[obj_id].file_size]_vars

\* C2 as claimed: a full header page whose type is no integer of 0..5 ends
\* the run with the wrong-object-type error; the scan never just stops on it.
TypeOutOfRange(d) ==
    d.len = page_size /\ ~(\E v \in 0..5 : U32(d.page.type, parser_order) = Small(v))
C2_WrongTypeIsFatal ==
    (pc \in {"walk", "done", "raised"} /\ TypeOutOfRange(data))
    => (pc = "raised" /\ exc = "WrongYaffsObjType")
\* C2 amended: such a page ends the scan as the end of the stream does: the
\* page is not registered, nothing is created and unpack returns with no error.
C2_WrongTypeEndsScan ==
    [][(pc = "scan" /\ TypeOutOfRange(data'))
         => (pc' = "done" /\ exc' = "" /\ objdict' = objdict /\ tree' = tree)]_vars
\* The scan has stopped on such a page after it registered a record.
C2_Witness ==
    pc = "done" /\ TypeOutOfRange(data) /\ DOMAIN objdict # {}

\* C3: the parent-id walk ends.  The walk is deterministic and the registry
\* does not change while it runs, so it ends exactly when it reaches an id
\* absent from the registry within as many steps as the registry has records.
RECURSIVE EndsWithin(_, _)
EndsWithin(id, n) ==
    \/ id \notin DOMAIN objdict
    \/ n > 0 /\ EndsWithin(objdict[id].parent_obj_id, n - 1)
C3_WalkEnds ==
    pc = "walk" => EndsWithin(walk_id, Cardinality(DOMAIN objdict))

\* C4: for a version-2 stream the page size is the largest allowed size for
\* which every byte read past the header structure is 0xFF, and the spare
\* size is the page size divided by 32.
ByteIsFF(o) == o < img.fill_end
AllFFPastHeader(size) ==
    \A o \in HdrSize..(Min(size, img.len) - 1) : ByteIsFF(o)
DetectedV2 == pc \in {"scan", "walk", "done"} /\ yaffs_version = 2
C4_LargestPassingPageSize ==
    DetectedV2 =>
        /\ page_size \in {16384, 8192, 4096, 2048, 512}
        /\ AllFFPastHeader(page_size)
        /\ \A larger \in {16384, 8192, 4096, 2048, 512} :
              larger > page_size => ~AllFFPastHeader(larger)
        /\ spare_size * 32 = page_size
\* A version-2 stream longer than two of its pages, of page size 2048.
C4_Witness ==
    DetectedV2 /\ page_size = 2048 /\ img.len > 4096

\* C5 as claimed: every registered record whose parent_id is a key of the
\* registry has a parent with a strictly smaller id.
C5_ParentBeforeChild ==
    \A id \in DOMAIN objdict :
        objdict[id].parent_obj_id \in DOMAIN objdict => objdict[id].parent_obj_id < id
\* C5 amended: a record whose parent_id names a record registered before it
\* in the run has a parent with a strictly smaller id.
C5_EarlierParentIsSmaller ==
    [][(pc = "scan" /\ pc' = "walk")
         => (objdict'[obj_id].parent_obj_id \in DOMAIN objdict
               => objdict'[obj_id].parent_obj_id < obj_id)]_vars
C5_Witness ==
    \E id \in DOMAIN objdict :
        /\ objdict[id].parent_obj_id \in DOMAIN objdict
        /\ objdict[id].parent_obj_id < id

\* C6: every call of unpack starts with an empty registry, and a
\* registration adds a new key and leaves the entries there as they are.
C6_RegistryPerRun ==
    [][/\ (pc \in {"idle", "done", "raised"} /\ pc' = "scan") => objdict' = <<>>
       /\ (pc = "scan" /\ pc' = "walk")
            => /\ obj_id \notin DOMAIN objdict
               /\ \A id \in DOMAIN objdict : objdict'[id] = objdict[id]]_vars

\* C7: a Directory record whose path is already a directory does not fail:
\* unpack goes on with the next object.
DirectoryAt(path) ==
    \/ path = <<>>
    \/ /\ EntryPath(tree, path).err = ""
       /\ EntryPath(tree, path).path \in DOMAIN tree
       /\ tree[EntryPath(tree, path).path].kind = "dir"
C7_MkdirIdempotent ==
    [][(/\ pc = "walk" /\ pc' # "walk"
        /\ objdict[obj_id].type = YAFFS_OBJECT_TYPE_DIRECTORY
        /\ DirectoryAt(ObjPath))
         => (pc' = "scan" /\ tree' = tree)]_vars

\* C8: a Hardlink, Special or Unknown record makes unpack raise the
\* unsupported-type error with the record's type; it is the last record
\* registered, and the entries created before it stay.  A record that is
\* registered and has not raised yet is on its parent-id walk, which must
\* then end for the error to be raised.
Unsupported ==
    {YAFFS_OBJECT_TYPE_HARDLINK, YAFFS_OBJECT_TYPE_SPECIAL, YAFFS_OBJECT_TYPE_UNKNOWN}
RaisesUnsupported ==
    \A id \in DOMAIN objdict :
        objdict[id].type \in Unsupported
          => /\ id = obj_id
             /\ \A later \in DOMAIN objdict : later <= id
             /\ \/ pc = "walk" /\ EndsWithin(walk_id, Cardinality(DOMAIN objdict))
                \/ pc = "raised" /\ exc = "WrongYaffsObjType" /\ exc_arg = objdict[id].type
C8_UnsupportedRaisesAndStops ==
    /\ []RaisesUnsupported
    /\ [][(pc = "walk" /\ objdict[obj_id].type \in Unsupported) => tree' = tree]_vars

\* C9: while the stream is not exhausted every header read starts a whole
\* number of page+spare units after the start offset, one unit per page
\* read; a File record moves the cursor by one unit and one per content
\* page, a Directory or Symlink record by one unit.
StartOffset == IF yaffs_version = 1 THEN UnitSize ELSE 0
Aligned == (pc = "scan" /\ pos < img.len) => pos = StartOffset + pages * UnitSize
HeaderAdvance ==
    (pc = "scan" /\ pc' = "walk" /\ pos + UnitSize <= img.len) => pos' = pos + UnitSize
ContentAdvance ==
    /\ (Materialized(YAFFS_OBJECT_TYPE_FILE) /\ ContentPresent)
         => pos' = pos + Ceil(objdict[obj_id].file_size, page_size) * UnitSize
    /\ (Materialized(YAFFS_OBJECT_TYPE_DIRECTORY) \/ Materialized(YAFFS_OBJECT_TYPE_SYMLINK))
         => pos' = pos
C9_CursorAligned ==
    []Aligned /\ [][HeaderAdvance /\ ContentAdvance]_vars
\* A header read after a File record of more than one content page.
C9_Witness ==
    /\ pc = "scan" /\ pos < img.len /\ pages >= 3
    /\ \E id \in DOMAIN objdict :
          objdict[id].type = YAFFS_OBJECT_TYPE_FILE /\ objdict[id].file_size > page_size

\* C10: the byte order detected for a stream follows from its first four
\* bytes alone: v,0,0,0 is little-endian and 0,0,0,v big-endian.
C10_OrderFromStreamAlone ==
    (pc # "idle" /\ img.len >= MagicSize)
    => /\ (\E v \in 1..5 : img.hdr0.type = <<v, 0, 0, 0>>) => endianness = LITTLE_ENDIAN
       /\ (\E v \in 1..5 : img.hdr0.type = <<0, 0, 0, v>>) => endianness = BIG_ENDIAN

====
